---- MODULE Spec2Model ----
(***************************************************************************)
(* A model of the ray tracer: the intersection dispatcher                  *)
(* (intersections.py), the geometric primitives (surfaces/*.py), the ray   *)
(* (ray.py) and the shading engine (lighting.py), driven by the pixel loop *)
(* of ray_tracer.py and by direct callers of LightingEngine.compute_color. *)
(*                                                                         *)
(* Numbers.  The program computes in IEEE double precision.  The model     *)
(* computes with exact fractions <<n, d>> in lowest terms, d >= 0, where   *)
(* d = 0 encodes the non-finite values numpy produces: <<1, 0>> is inf,    *)
(* <<-1, 0>> is -inf and <<0, 0>> is nan.  The scenes and rays of the      *)
(* model are chosen so that every square root taken is exact.              *)
(***************************************************************************)
EXTENDS Integers, Sequences, FiniteSets, TLC

(***************************************************************************)
(* Exact arithmetic                                                        *)
(***************************************************************************)
Abs(x) == IF x < 0 THEN -x ELSE x

Sign(x) == IF x < 0 THEN -1 ELSE IF x > 0 THEN 1 ELSE 0

RECURSIVE GCD(_, _)
GCD(a, b) == IF b = 0 THEN a ELSE GCD(b, a % b)

\* The fraction n/d in lowest terms with a non-negative denominator.
Q(n, d) ==
    IF d = 0 THEN <<Sign(n), 0>>
    ELSE LET g == GCD(Abs(n), Abs(d))
         IN  <<Sign(d) * Sign(n) * (Abs(n) \div g), Abs(d) \div g>>

R(n) == <<n, 1>>

Inf == <<1, 0>>

NegInf == <<-1, 0>>

NaN == <<0, 0>>

IsNaN(a) == a = NaN

IsFinite(a) == a[2] # 0

RNeg(a) == <<-a[1], a[2]>>

RAdd(a, b) ==
    IF a[2] = 1 /\ b[2] = 1 THEN <<a[1] + b[1], 1>>
    ELSE IF IsFinite(a) /\ IsFinite(b)
    THEN LET g == GCD(a[2], b[2])
             l == (a[2] \div g) * b[2]
         IN  Q(a[1] * (l \div a[2]) + b[1] * (l \div b[2]), l)
    ELSE IF IsNaN(a) \/ IsNaN(b) THEN NaN
    ELSE IF ~IsFinite(a) /\ ~IsFinite(b)
         THEN (IF a = b THEN a ELSE NaN)
    ELSE IF IsFinite(a) THEN b ELSE a

RSub(a, b) == RAdd(a, RNeg(b))

RMul(a, b) ==
    IF a[2] = 1 /\ b[2] = 1 THEN <<a[1] * b[1], 1>>
    ELSE Q(a[1] * b[1], a[2] * b[2])

\* numpy float division: x/0 is +-inf, 0/0 is nan (a warning, no exception).
RDiv(a, b) ==
    IF b = <<1, 1>> THEN a
    ELSE IF b[1] = 0
    THEN (IF b[2] = 0 THEN NaN ELSE <<Sign(a[1]), 0>>)
    ELSE Q(a[1] * b[2] * Sign(b[1]), a[2] * Abs(b[1]))

\* Comparisons; every comparison with nan is false, as in IEEE arithmetic.
RLt(a, b) ==
    IF IsNaN(a) \/ IsNaN(b) THEN FALSE
    ELSE IF ~IsFinite(a) /\ ~IsFinite(b) THEN a[1] < b[1]
    ELSE a[1] * b[2] < b[1] * a[2]

RGt(a, b) == RLt(b, a)

REq(a, b) == ~IsNaN(a) /\ ~IsNaN(b) /\ a = b

RLe(a, b) == RLt(a, b) \/ REq(a, b)

RGe(a, b) == RLe(b, a)

RAbs(a) == <<Abs(a[1]), a[2]>>

\* Python's max(x, y): y when y > x, else x.
RMax(x, y) == IF RGt(y, x) THEN y ELSE x

RMin(x, y) == IF RLt(y, x) THEN y ELSE x

\* The largest r in lo..hi with r * r <= n (bisection).
RECURSIVE ISqrtIn(_, _, _)
ISqrtIn(n, lo, hi) ==
    IF lo >= hi THEN lo
    ELSE LET mid == (lo + hi + 1) \div 2
         IN  IF mid * mid <= n THEN ISqrtIn(n, mid, hi) ELSE ISqrtIn(n, lo, mid - 1)

\* The integer square root, rounded down.
ISqrt(n) == ISqrtIn(n, 0, IF n < 46340 THEN n ELSE 46340)

\* np.sqrt of n/d, given rn and rd, the integer square roots of n and d:
\* exact on a ratio of perfect squares (every square root that reaches a
\* color or an intersection in the model is of this kind), and rounded down
\* to a multiple of 1/(100 d) otherwise.
RSqrtWith(a, rn, rd) ==
    IF rn * rn = a[1] /\ rd * rd = a[2] THEN <<rn, rd>>
    ELSE Q(ISqrt(a[1] * a[2] * 10000), a[2] * 100)

\* np.sqrt
RSqrt(a) ==
    IF IsNaN(a) \/ a[1] < 0 THEN NaN
    ELSE IF ~IsFinite(a) THEN Inf
    ELSE RSqrtWith(a, ISqrt(a[1]), ISqrt(a[2]))

\* Python's int() of a float: truncation toward zero.
PyInt(a) == Sign(a[1]) * (Abs(a[1]) \div a[2])

\* x ** k for a whole, non-negative exponent k (Python: 0 ** 0 = 1).
RECURSIVE RPow(_, _)
RPow(x, k) == IF k = 0 THEN R(1) ELSE RMul(x, RPow(x, k - 1))

(***************************************************************************)
(* Vectors and colors: numpy arrays of three numbers                       *)
(***************************************************************************)
V(x, y, z) == <<R(x), R(y), R(z)>>

Zeros3 == V(0, 0, 0)

VAdd(u, v) == [i \in 1..3 |-> RAdd(u[i], v[i])]

VSub(u, v) == [i \in 1..3 |-> RSub(u[i], v[i])]

VNeg(u) == [i \in 1..3 |-> RNeg(u[i])]

\* array * scalar
VScale(u, s) == [i \in 1..3 |-> RMul(u[i], s)]

\* array / scalar
VDivS(u, s) == [i \in 1..3 |-> RDiv(u[i], s)]

\* array * array, component-wise
VMul(u, v) == [i \in 1..3 |-> RMul(u[i], v[i])]

Dot(u, v) == RAdd(RAdd(RMul(u[1], v[1]), RMul(u[2], v[2])), RMul(u[3], v[3]))

Cross(u, v) ==
    << RSub(RMul(u[2], v[3]), RMul(u[3], v[2])),
       RSub(RMul(u[3], v[1]), RMul(u[1], v[3])),
       RSub(RMul(u[1], v[2]), RMul(u[2], v[1])) >>

\* np.linalg.norm
Norm(u) == RSqrt(Dot(u, u))

\* np.clip(color, lo, hi), per channel
Clip(c, lo, hi) == [i \in 1..3 |-> RMin(RMax(c[i], lo), hi)]

\* np.any(color > 0)
AnyPositive(c) == \E i \in 1..3 : RGt(c[i], R(0))

\* v / norm unless norm == 0 (the tail of every normalize of the program).
DivideByNorm(v, norm) == IF REq(norm, R(0)) THEN v ELSE VDivS(v, norm)

\* mathutils.normalize, Ray.normalize, LightingEngine.normalize
normalize(v) == DivideByNorm(v, Norm(v))

(***************************************************************************)
(* ray.py                                                                  *)
(***************************************************************************)
\* Ray.__init__ storing the direction as it is passed.
RayUnnormalized(origin, direction) == [origin |-> origin, direction |-> direction]

\* Ray.__init__: the direction is normalized once, at construction.
Ray(origin, direction) == [origin |-> origin, direction |-> normalize(direction)]

\* Ray.point_at
point_at(ray, t) == VAdd(ray.origin, VScale(ray.direction, t))

(***************************************************************************)
(* intersection.py and the primitives of surfaces/                         *)
(***************************************************************************)
\* Python's None, as a value of the same shape as an intersection.
None ==
    [hit |-> FALSE, hit_point |-> Zeros3, normal |-> Zeros3,
     distance |-> R(0), surface |-> 0]

\* Intersection(hit_point, normal, distance); surface defaults to None (0).
Intersection(hit_point, normal, distance) ==
    [hit |-> TRUE, hit_point |-> hit_point, normal |-> normal,
     distance |-> distance, surface |-> 0]

\* The self-intersection guard 0.0001 of the three primitives.
SelfEps == Q(1, 10000)

\* The parallel-ray guard 1e-6 of the plane and of the cube.
ParallelEps == Q(1, 1000000)

Sphere(position, radius, material_index) ==
    [kind |-> "sphere", position |-> position, radius |-> radius,
     normal |-> Zeros3, offset |-> R(0), scale |-> R(0),
     material_index |-> material_index]

InfinitePlane(normal, offset, material_index) ==
    [kind |-> "plane", position |-> Zeros3, radius |-> R(0),
     normal |-> normal, offset |-> offset, scale |-> R(0),
     material_index |-> material_index]

Cube(position, scale, material_index) ==
    [kind |-> "cube", position |-> position, radius |-> R(0),
     normal |-> Zeros3, offset |-> R(0), scale |-> scale,
     material_index |-> material_index]

\* Sphere.get_normal without the division by the radius.
SphereGetNormalUnscaled(self, point) == VSub(point, self.position)

\* Sphere.get_normal
SphereGetNormal(self, point) == VDivS(VSub(point, self.position), self.radius)

\* Sphere.intersect, lines 57-59: the hit at parameter t.
SphereHitAt(self, ray, hit_point, t) ==
    Intersection(hit_point, SphereGetNormal(self, hit_point), t)

\* Sphere.intersect, lines 49-59, with the far root tried first.
SphereChooseFar(self, ray, t1, t2) ==
    IF RGt(t2, SelfEps) THEN SphereHitAt(self, ray, point_at(ray, t2), t2)
    ELSE IF RGt(t1, SelfEps) THEN SphereHitAt(self, ray, point_at(ray, t1), t1)
    ELSE None

\* Sphere.intersect, lines 49-59: the choice between the two roots.
SphereChoose(self, ray, t1, t2) ==
    IF RGt(t1, SelfEps) THEN SphereHitAt(self, ray, point_at(ray, t1), t1)
    ELSE IF RGt(t2, SelfEps) THEN SphereHitAt(self, ray, point_at(ray, t2), t2)
    ELSE None

\* Sphere.intersect, lines 46-48: the two roots.
SphereRoots(self, ray, a, b, sqrt_discriminant) ==
    SphereChoose(self, ray,
                 RDiv(RSub(RNeg(b), sqrt_discriminant), RMul(R(2), a)),
                 RDiv(RAdd(RNeg(b), sqrt_discriminant), RMul(R(2), a)))

\* Sphere.intersect, lines 41-46: the test of the discriminant.
SphereDiscriminant(self, ray, a, b, discriminant) ==
    IF RLt(discriminant, R(0)) THEN None
    ELSE SphereRoots(self, ray, a, b, RSqrt(discriminant))

\* Sphere.intersect, lines 37-41: discriminant = b ** 2 - 4 * a * c.
SphereQuadratic(self, ray, a, b, c) ==
    SphereDiscriminant(self, ray, a, b,
                       RSub(RMul(b, b), RMul(RMul(R(4), a), c)))

\* Sphere.intersect, lines 35-39: the coefficients from oc = origin - center.
SphereCoefficients(self, ray, oc) ==
    SphereQuadratic(self, ray,
                    Dot(ray.direction, ray.direction),
                    RMul(R(2), Dot(oc, ray.direction)),
                    RSub(Dot(oc, oc), RMul(self.radius, self.radius)))

\* Sphere.intersect
SphereIntersect(self, ray) ==
    SphereCoefficients(self, ray, VSub(ray.origin, self.position))

\* InfinitePlane.get_normal
PlaneGetNormal(self, point) == normalize(self.normal)

\* InfinitePlane.intersect, lines 39-45, without the test of t.
PlaneHitAnywhere(self, ray, t) ==
    Intersection(point_at(ray, t), PlaneGetNormal(self, point_at(ray, t)), t)

\* InfinitePlane.intersect, lines 39-45: the test of t and the hit.
PlaneHit(self, ray, t) ==
    IF RLt(t, SelfEps) THEN None
    ELSE Intersection(point_at(ray, t), PlaneGetNormal(self, point_at(ray, t)), t)

\* InfinitePlane.intersect, lines 35-39: the parallel test and t.
PlaneDenom(self, ray, normalized_normal, denom) ==
    IF RLt(RAbs(denom), ParallelEps) THEN None
    ELSE PlaneHit(self, ray,
                  RDiv(RSub(self.offset, Dot(ray.origin, normalized_normal)), denom))

\* InfinitePlane.intersect, lines 33-34.
PlaneNormalized(self, ray, normalized_normal) ==
    PlaneDenom(self, ray, normalized_normal, Dot(ray.direction, normalized_normal))

\* InfinitePlane.intersect
PlaneIntersect(self, ray) == PlaneNormalized(self, ray, normalize(self.normal))

\* The unit vector of axis i with the given sign.
AxisVector(i, sign) == [k \in 1..3 |-> IF k = i THEN R(sign) ELSE R(0)]

\* Cube.intersect, lines 61-70, with the sign of the ray direction itself
\* as the sign of the recorded normal.
CubeSlabSameSign(ray, i, st, t1, t2) ==
    [t_min |-> IF RGt(t1, st.t_min) THEN t1 ELSE st.t_min,
     t_max |-> IF RLt(t2, st.t_max) THEN t2 ELSE st.t_max,
     hit_normal |-> IF RGt(t1, st.t_min)
                    THEN AxisVector(i, IF RGt(ray.direction[i], R(0)) THEN 1 ELSE -1)
                    ELSE st.hit_normal,
     miss |-> RGt(IF RGt(t1, st.t_min) THEN t1 ELSE st.t_min,
                  IF RLt(t2, st.t_max) THEN t2 ELSE st.t_max)]

\* Cube.intersect, lines 61-70, for axis i with t1 <= t2 the slab interval,
\* on the loop state st = [t_min, t_max, hit_normal, miss].
CubeSlab(ray, i, st, t1, t2) ==
    [t_min |-> IF RGt(t1, st.t_min) THEN t1 ELSE st.t_min,
     t_max |-> IF RLt(t2, st.t_max) THEN t2 ELSE st.t_max,
     hit_normal |-> IF RGt(t1, st.t_min)
                    THEN AxisVector(i, IF RGt(ray.direction[i], R(0)) THEN -1 ELSE 1)
                    ELSE st.hit_normal,
     miss |-> RGt(IF RGt(t1, st.t_min) THEN t1 ELSE st.t_min,
                  IF RLt(t2, st.t_max) THEN t2 ELSE st.t_max)]

\* Cube.intersect, lines 56-59: t1, t2 and the swap.
CubeSwap(ray, i, st, t1, t2) ==
    IF RGt(t1, t2) THEN CubeSlab(ray, i, st, t2, t1) ELSE CubeSlab(ray, i, st, t1, t2)

\* Cube.intersect, lines 51-59, for axis i and the bounds lo, hi of the axis;
\* miss records an early "return None".
CubeBounds(ray, i, st, lo, hi) ==
    IF RLt(RAbs(ray.direction[i]), ParallelEps)
    THEN [st EXCEPT !.miss = RLt(ray.origin[i], lo) \/ RGt(ray.origin[i], hi)]
    ELSE CubeSwap(ray, i, st,
                  RDiv(RSub(lo, ray.origin[i]), ray.direction[i]),
                  RDiv(RSub(hi, ray.origin[i]), ray.direction[i]))

\* One pass of the loop of Cube.intersect (lines 42-44, 50-70).
CubeAxis(self, ray, i, st) ==
    IF st.miss THEN st
    ELSE CubeBounds(ray, i, st,
                    RSub(self.position[i], RDiv(self.scale, R(2))),
                    RAdd(self.position[i], RDiv(self.scale, R(2))))

\* Cube.intersect, lines 72-80, on the state the loop ended in.
CubeResult(ray, st) ==
    IF st.miss THEN None
    ELSE IF RLt(st.t_min, SelfEps)
         THEN (IF RLt(st.t_max, SelfEps) THEN None
               ELSE Intersection(point_at(ray, st.t_max), st.hit_normal, st.t_max))
    ELSE Intersection(point_at(ray, st.t_min), st.hit_normal, st.t_min)

\* Cube.intersect
CubeIntersect(self, ray) ==
    CubeResult(ray,
        CubeAxis(self, ray, 3,
            CubeAxis(self, ray, 2,
                CubeAxis(self, ray, 1,
                    [t_min |-> NegInf, t_max |-> Inf, hit_normal |-> Zeros3,
                     miss |-> FALSE]))))

\* surface.intersect(ray), dispatched on the class of the surface.
Intersect(surface, ray) ==
    IF surface.kind = "sphere" THEN SphereIntersect(surface, ray)
    ELSE IF surface.kind = "plane" THEN PlaneIntersect(surface, ray)
    ELSE CubeIntersect(surface, ray)

(***************************************************************************)
(* The scene objects handed to the engine (material.py, light.py and       *)
(* scene_settings.py are plain records of the parsed parameters).          *)
(***************************************************************************)
Material(diffuse_color, specular_color, reflection_color, shininess, transparency) ==
    [diffuse_color |-> diffuse_color, specular_color |-> specular_color,
     reflection_color |-> reflection_color, shininess |-> shininess,
     transparency |-> transparency]

Light(position, color, specular_intensity, shadow_intensity, radius) ==
    [position |-> position, color |-> color,
     specular_intensity |-> specular_intensity,
     shadow_intensity |-> shadow_intensity, radius |-> radius]

SceneSettings(background_color, root_number_shadow_rays, max_recursions) ==
    [background_color |-> background_color,
     root_number_shadow_rays |-> root_number_shadow_rays,
     max_recursions |-> max_recursions]

\* A Python list indexed by k: list[k], with a negative k counted from the end.
PyIndex(list, k) == IF k >= 0 THEN list[k + 1] ELSE list[Len(list) + k + 1]

(***************************************************************************)
(* intersections.py                                                        *)
(***************************************************************************)
\* The scan the docstring of find_nearest_intersection describes (its
\* "Implementation Notes"), from surface k on, with best the nearest so far:
\* skip ignore_surface, keep a hit whose distance is < nearest_distance, and
\* record the surface (here its place in the list) in the kept hit.
RECURSIVE ScanNearest(_, _, _, _, _)
ScanNearest(ray, surfaces, ignore_surface, k, best) ==
    IF k > Len(surfaces) THEN best
    ELSE LET intersection == Intersect(surfaces[k], ray)
         IN  ScanNearest(ray, surfaces, ignore_surface, k + 1,
                 IF /\ k # ignore_surface
                    /\ intersection.hit
                    /\ (~best.hit \/ RLt(intersection.distance, best.distance))
                 THEN [intersection EXCEPT !.surface = k]
                 ELSE best)

\* find_nearest_intersection as its docstring documents it.
FindNearestDocumented(ray, surfaces, ignore_surface) ==
    ScanNearest(ray, surfaces, ignore_surface, 1, None)

\* find_nearest_intersection with a scan that does not skip ignore_surface.
find_nearest_no_skip(ray, surfaces, ignore_surface) ==
    FindNearestDocumented(ray, surfaces, 0)

\* find_nearest_intersection(ray, surfaces, ignore_surface): the body is the
\* placeholder "return None"; the scan its docstring describes is not written.
find_nearest_intersection(ray, surfaces, ignore_surface) == None

\* find_nearest_intersection_from_components
find_nearest_intersection_from_components(ray_origin, ray_direction, surfaces, ignore_surface) ==
    find_nearest_intersection(Ray(ray_origin, ray_direction), surfaces, ignore_surface)

(***************************************************************************)
(* lighting.py                                                             *)
(***************************************************************************)
\* The module-level find_nearest_intersection of lighting.py, the one the
\* shadow sampler calls: also a placeholder that returns None.
lighting_find_nearest_intersection(ray_origin, ray_direction, surfaces) == None

\* LightingEngine.__init__
LightingEngine(scene_settings, materials, lights, surfaces) ==
    [scene_settings |-> scene_settings, materials |-> materials,
     lights |-> lights, surfaces |-> surfaces,
     background_color |-> scene_settings.background_color,
     max_recursion |-> PyInt(scene_settings.max_recursions),
     num_shadow_rays |-> PyInt(scene_settings.root_number_shadow_rays)]

\* LightingEngine.reflect
reflect(incident, normal) ==
    VSub(incident, VScale(normal, RMul(R(2), Dot(incident, normal))))

\* The offset 0.001 of the shadow rays.
ShadowEps == Q(1, 1000)

\* The while loop of LightingEngine._trace_shadow_ray.
RECURSIVE TraceShadowLoop(_, _, _, _, _)
TraceShadowLoop(self, accumulated_transparency, current_origin, ray_direction, remaining_distance) ==
    IF ~RGt(remaining_distance, ShadowEps) THEN accumulated_transparency
    ELSE LET intersection ==
                 lighting_find_nearest_intersection(current_origin, ray_direction,
                                                    self.surfaces)
         IN  IF ~intersection.hit \/ RGt(intersection.distance, remaining_distance)
             THEN accumulated_transparency
             ELSE LET blocking_surface == self.surfaces[intersection.surface]
                      blocking_material ==
                          PyIndex(self.materials, blocking_surface.material_index - 1)
                      acc == RMul(accumulated_transparency,
                                  blocking_material.transparency)
                  IN  IF REq(acc, R(0)) THEN R(0)
                      ELSE TraceShadowLoop(
                               self, acc,
                               VAdd(intersection.hit_point,
                                    VScale(ray_direction, ShadowEps)),
                               ray_direction,
                               RSub(remaining_distance,
                                    RAdd(intersection.distance, ShadowEps)))

\* LightingEngine._trace_shadow_ray
trace_shadow_ray(self, ray_origin, ray_direction, max_distance) ==
    TraceShadowLoop(self, R(1), ray_origin, ray_direction, max_distance)

\* The material of the surface that was hit (compute_color, line 58;
\* _trace_shadow_ray, lines 226-227).
MaterialOf(self, intersection) ==
    PyIndex(self.materials, self.surfaces[intersection.surface].material_index - 1)

\* One pass of the while loop of _trace_shadow_ray that goes on to the next
\* pass whatever find_nearest_intersection returned, its locals as they were.
TracePassOn(self, st, intersection) == st

\* One pass of the while loop of _trace_shadow_ray (lines 215-236) on the
\* locals st, with intersection what find_nearest_intersection returned.
TracePass(self, st, intersection) ==
    IF ~intersection.hit \/ RGt(intersection.distance, st.remaining_distance)
    THEN [st EXCEPT !.returned = TRUE, !.result = st.accumulated_transparency]
    ELSE IF REq(RMul(st.accumulated_transparency,
                     MaterialOf(self, intersection).transparency), R(0))
    THEN [st EXCEPT !.accumulated_transparency = R(0),
                    !.returned = TRUE, !.result = R(0)]
    ELSE [st EXCEPT !.accumulated_transparency =
                        RMul(@, MaterialOf(self, intersection).transparency),
                    !.current_origin =
                        VAdd(intersection.hit_point,
                             VScale(st.ray_direction, ShadowEps)),
                    !.remaining_distance =
                        RSub(@, RAdd(intersection.distance, ShadowEps))]

\* compute_shadow_intensity, line 156: up, given right.
ShadowUp(light_direction, right) ==
    <<right, normalize(Cross(light_direction, right))>>

\* compute_shadow_intensity, lines 151-156, with world-up as the reference
\* axis of every light direction.
ShadowRightUpWorldUp(light_direction) ==
    ShadowUp(light_direction, normalize(Cross(light_direction, V(0, 1, 0))))

\* compute_shadow_intensity, lines 151-156: <<right, up>>.
ShadowRightUp(light_direction) ==
    ShadowUp(light_direction,
             IF RGt(RAbs(light_direction[1]), Q(1, 10))
             THEN normalize(Cross(light_direction, V(0, 1, 0)))
             ELSE normalize(Cross(light_direction, V(1, 0, 0))))

\* compute_shadow_intensity, lines 147-149: light_direction.
ShadowLightDirection(to_light) == VDivS(to_light, Norm(to_light))

\* The two in-plane axes of compute_shadow_intensity, <<right, up>>.
ShadowAxes(self, hit_point, light) ==
    ShadowRightUp(ShadowLightDirection(VSub(light.position, hit_point)))

\* compute_shadow_intensity, lines 173-187, given sample_direction.
ShadowTrace(self, hit_point, sample_direction, distance_to_sample) ==
    trace_shadow_ray(self, VAdd(hit_point, VScale(sample_direction, ShadowEps)),
                     sample_direction, distance_to_sample)

\* compute_shadow_intensity, lines 170-171, given distance_to_sample.
ShadowDirection(self, hit_point, to_sample, distance_to_sample) ==
    ShadowTrace(self, hit_point, VDivS(to_sample, distance_to_sample),
                distance_to_sample)

\* compute_shadow_intensity, lines 169-170, given to_sample.
ShadowToSample(self, hit_point, to_sample) ==
    ShadowDirection(self, hit_point, to_sample, Norm(to_sample))

\* The sample of cell (i, j) with the first random draw deciding how much
\* light arrives: 1 - rx.
ShadowCellByDraw(self, hit_point, light, axes, cell_size, i, j, rx, ry) ==
    RSub(R(1), rx)

\* compute_shadow_intensity, lines 164-169, given the axes and cell_size.
ShadowCell(self, hit_point, light, axes, cell_size, i, j, rx, ry) ==
    ShadowToSample(
        self, hit_point,
        VSub(VAdd(VAdd(light.position,
                       VScale(axes[1],
                              RSub(RMul(RAdd(R(i), rx), cell_size),
                                   RDiv(light.radius, R(2))))),
                  VScale(axes[2],
                         RSub(RMul(RAdd(R(j), ry), cell_size),
                              RDiv(light.radius, R(2))))),
             hit_point))

\* The body of the sample loop of compute_shadow_intensity for cell (i, j),
\* with rx, ry the two values np.random.random() returns: light_visibility.
ShadowSample(self, hit_point, light, i, j, rx, ry) ==
    ShadowCell(self, hit_point, light, ShadowAxes(self, hit_point, light),
               RDiv(light.radius, R(self.num_shadow_rays)), i, j, rx, ry)

\* The end of compute_shadow_intensity without the term 1 - shadow_intensity.
ShadowResultNoAmbient(self, light, hits) ==
    RMul(light.shadow_intensity,
         RDiv(hits, R(self.num_shadow_rays * self.num_shadow_rays)))

\* The end of compute_shadow_intensity with hits divided by N, not by N * N.
ShadowResultPerRow(self, light, hits) ==
    RAdd(RSub(R(1), light.shadow_intensity),
         RMul(light.shadow_intensity, RDiv(hits, R(self.num_shadow_rays))))

\* The end of compute_shadow_intensity: light_intensity from the summed hits.
ShadowResult(self, light, hits) ==
    LET N == self.num_shadow_rays
        hit_ratio == RDiv(hits, R(N * N))
    IN  RAdd(RSub(R(1), light.shadow_intensity), RMul(light.shadow_intensity, hit_ratio))

\* compute_light_contribution, lines 119-132, given light_direction.
LightShading(normal, view_direction, material, light, light_intensity, light_direction) ==
    VScale(
        VMul(light.color,
             VAdd(VScale(material.diffuse_color,
                         RMax(R(0), Dot(normal, light_direction))),
                  VScale(VScale(material.specular_color,
                                RPow(RMax(R(0),
                                          Dot(normalize(VNeg(view_direction)),
                                              reflect(VNeg(light_direction), normal))),
                                     material.shininess)),
                         light.specular_intensity))),
        light_intensity)

\* LightingEngine.compute_light_contribution, given the light_intensity that
\* its call of compute_shadow_intensity returned.
compute_light_contribution(hit_point, normal, view_direction, material, light, light_intensity) ==
    IF REq(light_intensity, R(0)) THEN Zeros3
    ELSE LightShading(normal, view_direction, material, light, light_intensity,
                      normalize(VSub(light.position, hit_point)))

\* compute_color, line 70, with "=" for "+=": only the last light is kept.
KeepLastContribution(diffuse_specular_color, light_contribution) ==
    light_contribution

\* compute_color, line 70: diffuse_specular_color += light_contribution.
AddContribution(diffuse_specular_color, light_contribution) ==
    VAdd(diffuse_specular_color, light_contribution)

\* compute_color, lines 49-50, with the background color clamped.
NoIntersectionColorClamped(self) == Clip(self.background_color, R(0), R(255))

\* compute_color, lines 49-50: the value returned for a None intersection.
NoIntersectionColor(self) == self.background_color

\* compute_color, line 70, with diffuse_specular_color bound to the array
\* self.background_color: the sum is written into the engine.
AddInPlaceToBackground(self, sum) == [self EXCEPT !.background_color = sum]

\* The engine after "diffuse_specular_color += light_contribution" (line
\* 70): the sum is written in place into the array np.zeros(3) made at line
\* 61, which is no array of the scene, so the engine is as it was.
AddInPlace(self, sum) == self

\* LightingEngine.compute_reflection: the placeholder "return np.zeros(3)".
compute_reflection(self, hit_point, incident_direction, normal, material, recursion_depth) ==
    Zeros3

\* LightingEngine.compute_transparency: the placeholder
\* "return self.background_color".
compute_transparency(self, hit_point, ray_direction, material, recursion_depth) ==
    self.background_color

\* The compute_color calls compute_reflection makes, by recursion_depth:
\* none (the recursive trace of its TODO is not written).
reflection_calls(self, recursion_depth) == <<>>

\* compute_transparency tracing on at recursion_depth + 1 with no test of
\* the recursion limit.
transparency_calls_unbounded(self, recursion_depth) == <<recursion_depth + 1>>

\* The compute_color calls compute_transparency makes: none.
transparency_calls(self, recursion_depth) == <<>>

\* The guard of step 2 of compute_color.
ReflectionGuard(self, material, recursion_depth) ==
    recursion_depth < self.max_recursion /\ AnyPositive(material.reflection_color)

\* The guard of step 3 of compute_color.
TransparencyGuard(self, material, recursion_depth) ==
    RGt(material.transparency, R(0))

\* Step 4 of compute_color without the final np.clip.
final_color_unclamped(background_color, diffuse_specular_color, reflection_color, material) ==
    VAdd(VAdd(VScale(background_color, material.transparency),
              VScale(diffuse_specular_color, RSub(R(1), material.transparency))),
         reflection_color)

\* Step 4 of compute_color: the combination and the clamp.
final_color(background_color, diffuse_specular_color, reflection_color, material) ==
    Clip(VAdd(VAdd(VScale(background_color, material.transparency),
                   VScale(diffuse_specular_color,
                          RSub(R(1), material.transparency))),
              reflection_color),
         R(0), R(255))

(***************************************************************************)
(* Bounds and the finite sets the inputs are drawn from                    *)
(***************************************************************************)
\* The longest surface list of a scene.
MaxSurfaces == 2

\* The longest light list of a scene.
MaxLights == 2

\* The largest max_recursions setting of a scene.
MaxRecursion == 1

\* The materials of every scene: an opaque matte one, a half transparent
\* one, and one that is both reflective and slightly transparent.
MaterialList ==
    << Material(V(200, 50, 20), V(120, 120, 120), Zeros3, 2, R(0)),
       Material(V(0, 100, 0), Zeros3, Zeros3, 1, Q(1, 2)),
       Material(V(20, 20, 20), V(40, 40, 40), <<Q(1, 2), Q(1, 2), Q(1, 2)>>, 0,
                Q(1, 4)) >>

\* The surfaces a scene is built from, all met by the line x = y = 0:
\* the unit sphere, the plane z = 2 and a cube of edge 2 around (0, 0, -3).
SurfacePool ==
    { Sphere(V(0, 0, 0), R(1), 1),
      InfinitePlane(V(0, 0, 2), R(2), 2),
      Cube(V(0, 0, -3), R(2), 3) }

\* The k-th light of a scene; all lights lie on the line x = y = 0.
LightAt(k) ==
    CASE k = 1 -> Light(V(0, 0, 6), V(1, 1, 1), Q(1, 2), R(1), R(1))
      [] k = 2 -> Light(V(0, 0, -6), V(1, 1, 1), R(1), Q(1, 2), R(0))
      [] OTHER -> Light(V(0, 0, 8), <<R(1), Q(1, 2), R(0)>>, R(1), R(1), R(2))

LightLists == { [k \in 1..n |-> LightAt(k)] : n \in 0..MaxLights }

SurfaceLists == UNION { [1..n -> SurfacePool] : n \in 0..MaxSurfaces }

\* The background color and root_number_shadow_rays of a scene: a color
\* inside [0, 255] with one shadow ray, and one outside it (the parser of
\* ray_tracer.py accepts any numbers) with a 2 x 2 grid of shadow rays.
BackgroundAndRoot == { <<V(50, 50, 100), 1>>, <<V(300, 0, -20), 2>> }

SettingsPool ==
    { SceneSettings(br[1], R(br[2]), R(m)) :
        br \in BackgroundAndRoot, m \in 0..MaxRecursion }

\* The camera of ray_tracer.py; Camera.generate_ray is the placeholder
\* "return Ray(self.position, [0, 0, -1])" for every pixel.
CameraPosition == V(0, 0, 5)

generate_ray(pixel_x, pixel_y, image_width, image_height) ==
    Ray(CameraPosition, V(0, 0, -1))

\* The rays direct callers pass: towards the scene, away from it, and from
\* inside the sphere.
RayPool ==
    { Ray(V(0, 0, 5), V(0, 0, -1)),
      Ray(V(0, 0, 5), V(0, 0, 2)),
      Ray(V(0, 0, 0), V(0, 0, -3)) }

\* The values np.random.random() is taken to return.
Randoms == { R(0), Q(1, 2) }

(***************************************************************************)
(* State                                                                   *)
(***************************************************************************)
VARIABLES
    engine,                  \* the LightingEngine main builds (with the scene)
    pc,                      \* where the operation in progress stands
    ray_origin,              \* compute_color: arguments
    ray_direction,
    intersection_data,
    recursion_depth,
    diffuse_specular_color,  \* compute_color: locals
    reflection_color,
    background_color,
    light_k,                 \* index of the light the loop of step 1 is at
    shadow_i,                \* compute_shadow_intensity: loop indices and hits
    shadow_j,
    hits,
    intensities,             \* what each compute_shadow_intensity call returned
    calls,                   \* recursion_depth of every compute_color call made
    color,                   \* what compute_color returned
    fn_ray,                  \* find_nearest_intersection: arguments and result
    fn_ignore,
    nearest,
    prim_surface,            \* surface.intersect(ray): the surface, the ray
    prim_ray,                \* and what the call returned
    prim_result,
    scene_file,              \* the object lines parse_scene_file reads
    shadow_axes,             \* compute_shadow_intensity: the in-plane axes
    shadow_trace             \* _trace_shadow_ray: arguments, locals, result

vars ==
    << engine, pc, ray_origin, ray_direction, intersection_data, recursion_depth,
       diffuse_specular_color, reflection_color, background_color, light_k,
       shadow_i, shadow_j, hits, intensities, calls, color, fn_ray, fn_ignore,
       nearest, prim_surface, prim_ray, prim_result, scene_file, shadow_axes,
       shadow_trace >>

\* The variables of a direct call of a primitive's intersect.
prim == << prim_surface, prim_ray, prim_result >>

NoRay == Ray(Zeros3, Zeros3)

\* No surface: the value of prim_surface while no intersect call is made.
NoSurface == Sphere(Zeros3, R(0), 0)

\* The variables of the load of a scene file and of direct calls of the
\* parts of the shadow sampler.
others == << scene_file, shadow_axes, shadow_trace >>

\* No call of compute_shadow_intensity has built its axes.
NoAxes ==
    [hit_point |-> Zeros3, light_position |-> Zeros3, light_direction |-> Zeros3,
     right |-> Zeros3, up |-> Zeros3]

\* No call of _trace_shadow_ray is in progress.
NoTrace ==
    [ray_origin |-> Zeros3, ray_direction |-> Zeros3, max_distance |-> R(0),
     accumulated_transparency |-> R(1), current_origin |-> Zeros3,
     remaining_distance |-> R(0), returned |-> FALSE, result |-> R(0)]

\* No operation in progress: every argument, local and result is cleared.
Cleared ==
    /\ pc' = "idle"
    /\ ray_origin' = Zeros3
    /\ ray_direction' = Zeros3
    /\ intersection_data' = None
    /\ recursion_depth' = 0
    /\ diffuse_specular_color' = Zeros3
    /\ reflection_color' = Zeros3
    /\ background_color' = Zeros3
    /\ light_k' = 0
    /\ shadow_i' = 0
    /\ shadow_j' = 0
    /\ hits' = R(0)
    /\ intensities' = <<>>
    /\ calls' = <<>>
    /\ color' = Zeros3
    /\ fn_ray' = NoRay
    /\ fn_ignore' = 0
    /\ nearest' = None

\* main: the scene is parsed and the engine is built (ray_tracer.py 67-84).
Init ==
    /\ \E settings \in SettingsPool, lights \in LightLists, surfaces \in SurfaceLists :
           engine = LightingEngine(settings, MaterialList, lights, surfaces)
    /\ pc = "idle"
    /\ ray_origin = Zeros3
    /\ ray_direction = Zeros3
    /\ intersection_data = None
    /\ recursion_depth = 0
    /\ diffuse_specular_color = Zeros3
    /\ reflection_color = Zeros3
    /\ background_color = Zeros3
    /\ light_k = 0
    /\ shadow_i = 0
    /\ shadow_j = 0
    /\ hits = R(0)
    /\ intensities = <<>>
    /\ calls = <<>>
    /\ color = Zeros3
    /\ fn_ray = NoRay
    /\ fn_ignore = 0
    /\ nearest = None
    /\ prim_surface = NoSurface
    /\ prim_ray = NoRay
    /\ prim_result = None
    /\ scene_file = <<>>
    /\ shadow_axes = NoAxes
    /\ shadow_trace = NoTrace

material == MaterialOf(engine, intersection_data)

\* The intersections a caller of compute_color can hold for a ray: what a
\* surface of the scene answers to the ray, with 'surface' set to it.
HitsOf(self, ray) ==
    { [Intersect(self.surfaces[k], ray) EXCEPT !.surface = k] :
        k \in { n \in 1..Len(self.surfaces) : Intersect(self.surfaces[n], ray).hit } }

(***************************************************************************)
(* Operations                                                              *)
(***************************************************************************)
\* The entry of compute_color (lines 49-63): a None intersection returns
\* the background color at once; otherwise the locals are initialised.
EnterComputeColor(origin, direction, intersection, depth) ==
    /\ ray_origin' = origin
    /\ ray_direction' = direction
    /\ intersection_data' = intersection
    /\ recursion_depth' = depth
    /\ calls' = <<depth>>
    /\ diffuse_specular_color' = Zeros3
    /\ reflection_color' = Zeros3
    /\ background_color' = Zeros3
    /\ intensities' = <<>>
    /\ shadow_i' = 0
    /\ shadow_j' = 0
    /\ hits' = R(0)
    /\ IF ~intersection.hit
       THEN /\ color' = NoIntersectionColor(engine)
            /\ light_k' = 0
            /\ pc' = "done"
       ELSE /\ color' = Zeros3
            /\ light_k' = 1
            /\ pc' = "lights"

\* find_nearest_intersection_from_components called by a user of the module.
FindNearest ==
    /\ UNCHANGED prim
    /\ UNCHANGED others
    /\ pc = "idle"
    /\ \E ray \in RayPool, ignore \in 0..Len(engine.surfaces) :
           /\ fn_ray' = ray
           /\ fn_ignore' = ignore
           /\ nearest' = find_nearest_intersection_from_components(
                             ray.origin, ray.direction, engine.surfaces, ignore)
    /\ pc' = "found"
    /\ UNCHANGED << engine, ray_origin, ray_direction, intersection_data,
                    recursion_depth, diffuse_specular_color, reflection_color,
                    background_color, light_k, shadow_i, shadow_j, hits,
                    intensities, calls, color >>

\* One pixel of main (ray_tracer.py 100-113): the ray of the pixel, its
\* nearest intersection, and compute_color on it at depth 0.
MainPixel ==
    /\ UNCHANGED prim
    /\ UNCHANGED others
    /\ pc = "idle"
    /\ LET ray == generate_ray(0, 0, 1, 1)
           intersection == find_nearest_intersection(ray, engine.surfaces, 0)
       IN  /\ fn_ray' = ray
           /\ fn_ignore' = 0
           /\ nearest' = intersection
           /\ EnterComputeColor(ray.origin, ray.direction, intersection, 0)
    /\ UNCHANGED engine

\* compute_color called by a user of the engine (as test_lighting_simple.py
\* does), with no intersection or with the answer of a surface of the scene.
ComputeColor ==
    /\ UNCHANGED prim
    /\ UNCHANGED others
    /\ pc = "idle"
    /\ \E ray \in RayPool, depth \in {0, engine.max_recursion} :
          \E intersection \in {None} \cup HitsOf(engine, ray) :
              EnterComputeColor(ray.origin, ray.direction, intersection, depth)
    /\ UNCHANGED << engine, fn_ray, fn_ignore, nearest >>

\* The control of one pass of the sample loop: "for i in range(N): for j in
\* range(N)" (lines 162-163).
ShadowSampleControl ==
    /\ pc = "lights"
    /\ light_k <= Len(engine.lights)
    /\ shadow_i < engine.num_shadow_rays
    /\ IF shadow_j + 1 < engine.num_shadow_rays
       THEN shadow_j' = shadow_j + 1 /\ shadow_i' = shadow_i
       ELSE shadow_j' = 0 /\ shadow_i' = shadow_i + 1
    /\ UNCHANGED << pc, light_k >>

\* One pass of the sample loop of compute_shadow_intensity (lines 162-188).
ShadowSampleStep ==
    /\ UNCHANGED prim
    /\ UNCHANGED others
    /\ ShadowSampleControl
    /\ \E rx \in Randoms, ry \in Randoms :
           hits' = RAdd(hits, ShadowSample(engine, intersection_data.hit_point,
                                           engine.lights[light_k],
                                           shadow_i, shadow_j, rx, ry))
    /\ UNCHANGED << engine, ray_origin, ray_direction, intersection_data,
                    recursion_depth, diffuse_specular_color, reflection_color,
                    background_color, intensities, calls, color,
                    fn_ray, fn_ignore, nearest >>

\* The control of the end of one pass of the light loop: the sample loop is
\* over and "for light in self.lights" (line 66) moves to the next light.
LightDoneControl ==
    /\ pc = "lights"
    /\ light_k <= Len(engine.lights)
    /\ shadow_i >= engine.num_shadow_rays
    /\ light_k' = light_k + 1
    /\ shadow_i' = 0
    /\ shadow_j' = 0
    /\ UNCHANGED pc

\* The end of one pass of the light loop (lines 66-70, 190-192, 116-132):
\* the shadow intensity is formed and the contribution of the light added.
LightDone ==
    /\ UNCHANGED prim
    /\ UNCHANGED others
    /\ LightDoneControl
    /\ diffuse_specular_color' =
           AddContribution(
               diffuse_specular_color,
               compute_light_contribution(
                   intersection_data.hit_point, intersection_data.normal,
                   ray_direction, material, engine.lights[light_k],
                   ShadowResult(engine, engine.lights[light_k], hits)))
    /\ engine' = AddInPlace(engine, diffuse_specular_color')
    /\ intensities' =
           Append(intensities, ShadowResult(engine, engine.lights[light_k], hits))
    /\ hits' = R(0)
    /\ UNCHANGED << ray_origin, ray_direction, intersection_data,
                    recursion_depth, reflection_color, background_color, calls,
                    color, fn_ray, fn_ignore, nearest >>

\* The control of step 2: the light loop is over.
ReflectionControl ==
    /\ pc = "lights"
    /\ light_k > Len(engine.lights)
    /\ pc' = "transparency"
    /\ UNCHANGED << light_k, shadow_i, shadow_j >>

\* Step 2 of compute_color (lines 72-76).
Reflection ==
    /\ UNCHANGED prim
    /\ UNCHANGED others
    /\ ReflectionControl
    /\ IF ReflectionGuard(engine, material, recursion_depth)
       THEN /\ reflection_color' =
                   compute_reflection(engine, intersection_data.hit_point,
                                      ray_direction, intersection_data.normal,
                                      material, recursion_depth)
            /\ calls' = calls \o reflection_calls(engine, recursion_depth)
       ELSE UNCHANGED << reflection_color, calls >>
    /\ UNCHANGED << engine, ray_origin, ray_direction, intersection_data,
                    recursion_depth, diffuse_specular_color, background_color,
                    hits, intensities, color,
                    fn_ray, fn_ignore, nearest >>

\* The control of step 3.
TransparencyControl ==
    /\ pc = "transparency"
    /\ pc' = "combine"
    /\ UNCHANGED << light_k, shadow_i, shadow_j >>

\* Step 3 of compute_color (lines 78-82).
Transparency ==
    /\ UNCHANGED prim
    /\ UNCHANGED others
    /\ TransparencyControl
    /\ IF TransparencyGuard(engine, material, recursion_depth)
       THEN /\ background_color' =
                   compute_transparency(engine, intersection_data.hit_point,
                                        ray_direction, material, recursion_depth)
            /\ calls' = calls \o transparency_calls(engine, recursion_depth)
       ELSE UNCHANGED << background_color, calls >>
    /\ UNCHANGED << engine, ray_origin, ray_direction, intersection_data,
                    recursion_depth, diffuse_specular_color, reflection_color,
                    hits, intensities, color,
                    fn_ray, fn_ignore, nearest >>

\* The control of step 4: compute_color returns.
CombineControl ==
    /\ pc = "combine"
    /\ pc' = "done"
    /\ UNCHANGED << light_k, shadow_i, shadow_j >>

\* Step 4 of compute_color (lines 84-95): the value returned for a hit.
Combine ==
    /\ UNCHANGED prim
    /\ UNCHANGED others
    /\ CombineControl
    /\ color' = final_color(background_color, diffuse_specular_color,
                            reflection_color, material)
    /\ UNCHANGED << engine, ray_origin, ray_direction, intersection_data,
                    recursion_depth, diffuse_specular_color, reflection_color,
                    background_color, hits,
                    intensities, calls, fn_ray, fn_ignore, nearest >>

\* The caller takes the result (main stores the color in image_array).
Return ==
    /\ UNCHANGED prim
    /\ UNCHANGED others
    /\ pc \in {"done", "found"}
    /\ Cleared
    /\ UNCHANGED engine

Next ==
    \/ FindNearest
    \/ MainPixel
    \/ ComputeColor
    \/ ShadowSampleStep
    \/ LightDone
    \/ Reflection
    \/ Transparency
    \/ Combine
    \/ Return

Spec == Init /\ [][Next]_vars

\* Where compute_color stands: its step and the indices of its loops.
control == << pc, light_k, shadow_i, shadow_j >>

\* Once called, compute_color runs on: the program is sequential and none of
\* its steps blocks, so whenever its control can move on it does.  Which
\* step comes next depends on the control alone, never on the colors.
FairSpec ==
    /\ Spec
    /\ WF_control(ShadowSampleControl)
    /\ WF_control(LightDoneControl)
    /\ WF_control(ReflectionControl)
    /\ WF_control(TransparencyControl)
    /\ WF_control(CombineControl)

(***************************************************************************)
(* Direct calls of the primitives' intersect                               *)
(***************************************************************************)
\* The origins and the directions the rays of the direct calls are built
\* from; Ray normalizes each direction, and each has a rational length.
PrimOrigins ==
    { V(0, 0, 5), V(0, 0, 0), <<Q(3, 5), R(0), R(5)>>, V(1, 0, 5), V(2, 0, 5),
      V(0, 5, 0), V(-3, 0, 5), V(-5, 0, 3) }

PrimDirections ==
    { V(0, 0, -1), V(0, 0, 2), V(1, 0, 0), V(0, -1, 0), V(3, 0, -4), V(4, 0, -3),
      V(0, 0, 0) }

PrimRays == { Ray(o, d) : o \in PrimOrigins, d \in PrimDirections }

PrimSpheres ==
    { Sphere(V(0, 0, 0), R(1), 1), Sphere(V(0, 0, 0), R(3), 1),
      Sphere(V(0, 0, 0), R(5), 1) }

\* Planes with a unit normal, a longer one, and the zero vector as normal.
PrimPlanes ==
    { InfinitePlane(V(0, 1, 0), R(0), 1), InfinitePlane(V(0, 0, 2), R(2), 1),
      InfinitePlane(V(0, 0, 1), R(0), 1), InfinitePlane(V(0, 0, 0), R(0), 1) }

PrimCubes == { Cube(V(0, 0, 0), R(2), 1), Cube(V(0, 0, -3), R(2), 1) }

\* Calls whose hit lies at the self-intersection guard or just inside it:
\* origins 0.0001 and 0.00005 away from the surface along the z axis.
GuardCalls ==
    { << Sphere(V(0, 0, 0), R(1), 1),
         Ray(<<R(0), R(0), Q(10001, 10000)>>, V(0, 0, -1)) >>,
      << InfinitePlane(V(0, 0, 1), R(0), 1),
         Ray(<<R(0), R(0), Q(-1, 10000)>>, V(0, 0, 1)) >>,
      << InfinitePlane(V(0, 0, 1), Q(1, 10000), 1), Ray(V(0, 0, 0), V(0, 0, 1)) >>,
      << Cube(V(0, 0, 0), R(2), 1),
         Ray(<<R(0), R(0), Q(10001, 10000)>>, V(0, 0, -1)) >>,
      << Cube(V(0, 0, 0), R(2), 1),
         Ray(<<R(0), R(0), Q(20001, 20000)>>, V(0, 0, -1)) >> }

\* The discriminant b ** 2 - 4 * a * c of Sphere.intersect (lines 35-41).
Discriminant(self, ray) ==
    LET oc == VSub(ray.origin, self.position)
        a == Dot(ray.direction, ray.direction)
        b == RMul(R(2), Dot(oc, ray.direction))
        c == RSub(Dot(oc, oc), RMul(self.radius, self.radius))
    IN  RSub(RMul(b, b), RMul(RMul(R(4), a), c))

\* np.sqrt(x) is a rational number, which RSqrt then gives exactly.
SqrtIsExact(x) ==
    /\ x[1] >= 0
    /\ ISqrt(x[1]) * ISqrt(x[1]) = x[1]
    /\ ISqrt(x[2]) * ISqrt(x[2]) = x[2]

\* The calls made: every surface with every ray, and the guard calls; of
\* the sphere calls, those whose roots are rational.
PrimCalls ==
    { call \in ((PrimSpheres \cup PrimPlanes \cup PrimCubes) \X PrimRays)
                  \cup GuardCalls :
        call[1].kind = "sphere" =>
            \/ RLt(Discriminant(call[1], call[2]), R(0))
            \/ SqrtIsExact(Discriminant(call[1], call[2])) }

\* A caller holds a surface and a ray and calls surface.intersect(ray).
IntersectCall(result) ==
    /\ pc = "idle"
    /\ pc' = "intersected"
    /\ prim_surface' = result[1]
    /\ prim_ray' = result[2]
    /\ prim_result' = result[3]
    /\ UNCHANGED others
    /\ UNCHANGED << engine, ray_origin, ray_direction, intersection_data,
                    recursion_depth, diffuse_specular_color, reflection_color,
                    background_color, light_k, shadow_i, shadow_j, hits,
                    intensities, calls, color, fn_ray, fn_ignore, nearest >>

SphereCall ==
    \E call \in PrimCalls :
        /\ call[1].kind = "sphere"
        /\ IntersectCall(<<call[1], call[2], SphereIntersect(call[1], call[2])>>)

PlaneCall ==
    \E call \in PrimCalls :
        /\ call[1].kind = "plane"
        /\ IntersectCall(<<call[1], call[2], PlaneIntersect(call[1], call[2])>>)

CubeCall ==
    \E call \in PrimCalls :
        /\ call[1].kind = "cube"
        /\ IntersectCall(<<call[1], call[2], CubeIntersect(call[1], call[2])>>)

\* The caller takes the result.
PrimReturn ==
    /\ pc = "intersected"
    /\ Cleared
    /\ prim_surface' = NoSurface
    /\ prim_ray' = NoRay
    /\ prim_result' = None
    /\ UNCHANGED others
    /\ UNCHANGED engine

PrimInit == Init /\ engine.surfaces = <<>> /\ engine.lights = <<>>

PrimNext ==
    \/ SphereCall
    \/ PlaneCall
    \/ CubeCall
    \/ PrimReturn

PrimSpec == PrimInit /\ [][PrimNext]_vars

(***************************************************************************)
(* The load of a scene file (ray_tracer.py)                                *)
(***************************************************************************)
\* The most object lines of a scene file.
MaxLines == 3

\* A line of a scene file after "cam" and "set": its tag, parts[0], and the
\* one parameter that varies, the material index of a surface line (and the
\* place in the pools of the material or the light of a "mtl" or "lgt" line).
SceneLine(obj_type, index) == [obj_type |-> obj_type, index |-> index]

\* The lines the scene files are made of: materials, a light, surfaces whose
\* material index is negative, 0, or 1 to 3, and a line with the tag "tri".
LinePool ==
    { SceneLine("mtl", 1), SceneLine("mtl", 2), SceneLine("lgt", 1),
      SceneLine("pln", 1), SceneLine("box", 2), SceneLine("tri", 1) }
    \cup { SceneLine("sph", i) : i \in -1..3 }

SceneFiles == UNION { [1..n -> LinePool] : n \in 0..MaxLines }

\* The SceneSettings of the "set" line of every scene file.
FileSettings == SceneSettings(V(50, 50, 100), R(1), R(1))

\* Nothing parsed yet: the lists main separates the objects into.
NoObjects == [failed |-> FALSE, materials |-> <<>>, lights |-> <<>>, surfaces |-> <<>>]

\* One pass of the loop of parse_scene_file (lines 26-49) on a line, and
\* the list of main (lines 75-81) the object goes to; an unknown tag raises
\* ValueError.  The parameters are not checked, the material index included.
ParseLine(line, parsed) ==
    CASE line.obj_type = "mtl" ->
             [parsed EXCEPT !.materials = Append(@, MaterialList[line.index])]
      [] line.obj_type = "sph" ->
             [parsed EXCEPT !.surfaces = Append(@, Sphere(V(0, 0, 0), R(1), line.index))]
      [] line.obj_type = "pln" ->
             [parsed EXCEPT !.surfaces =
                  Append(@, InfinitePlane(V(0, 0, 2), R(2), line.index))]
      [] line.obj_type = "box" ->
             [parsed EXCEPT !.surfaces = Append(@, Cube(V(0, 0, -3), R(2), line.index))]
      [] line.obj_type = "lgt" ->
             [parsed EXCEPT !.lights = Append(@, LightAt(line.index))]
      [] OTHER -> [parsed EXCEPT !.failed = TRUE]

\* parse_scene_file from line k on: the loop stops at the first ValueError.
RECURSIVE ParseLines(_, _, _)
ParseLines(lines, k, parsed) ==
    IF k > Len(lines) \/ parsed.failed THEN parsed
    ELSE ParseLines(lines, k + 1, ParseLine(lines[k], parsed))

\* parse_scene_file and the separation of the objects by main (lines 67-81).
parse_scene_file(lines) == ParseLines(lines, 1, NoObjects)

\* The engine main holds before the scene file is read: none.
NoEngine == LightingEngine(FileSettings, <<>>, <<>>, <<>>)

\* main is started on a scene file.
LoadInit ==
    /\ scene_file \in SceneFiles
    /\ engine = NoEngine
    /\ pc = "start"
    /\ ray_origin = Zeros3
    /\ ray_direction = Zeros3
    /\ intersection_data = None
    /\ recursion_depth = 0
    /\ diffuse_specular_color = Zeros3
    /\ reflection_color = Zeros3
    /\ background_color = Zeros3
    /\ light_k = 0
    /\ shadow_i = 0
    /\ shadow_j = 0
    /\ hits = R(0)
    /\ intensities = <<>>
    /\ calls = <<>>
    /\ color = Zeros3
    /\ fn_ray = NoRay
    /\ fn_ignore = 0
    /\ nearest = None
    /\ prim_surface = NoSurface
    /\ prim_ray = NoRay
    /\ prim_result = None
    /\ shadow_axes = NoAxes
    /\ shadow_trace = NoTrace

\* main, lines 67-84: the scene file is parsed and the engine is built, or
\* the ValueError of parse_scene_file ends the program.
LoadScene ==
    /\ pc = "start"
    /\ IF parse_scene_file(scene_file).failed
       THEN /\ pc' = "load_failed"
            /\ UNCHANGED engine
       ELSE /\ pc' = "idle"
            /\ engine' = LightingEngine(FileSettings,
                                        parse_scene_file(scene_file).materials,
                                        parse_scene_file(scene_file).lights,
                                        parse_scene_file(scene_file).surfaces)
    /\ UNCHANGED << ray_origin, ray_direction, intersection_data,
                    recursion_depth, diffuse_specular_color, reflection_color,
                    background_color, light_k, shadow_i, shadow_j, hits,
                    intensities, calls, color, fn_ray, fn_ignore, nearest >>
    /\ UNCHANGED prim
    /\ UNCHANGED others

\* main: the load, then the pixels of the image one after the other.
LoadNext ==
    \/ LoadScene
    \/ MainPixel
    \/ Return

LoadSpec == LoadInit /\ [][LoadNext]_vars

(***************************************************************************)
(* Direct calls of the parts of the shadow sampler                         *)
(***************************************************************************)
\* The hit points and the vectors from the hit point to the light the axes
\* are built for: along and against each world axis, and oblique ones on
\* both sides of the test "abs(light_direction[0]) > 0.1".  Each vector and
\* each cross product taken of it has a rational length.
AxesHitPoints == { V(0, 0, 0), V(0, 0, 1), V(1, 2, 3) }

AxesToLight ==
    { V(0, 0, 5), V(0, 0, -7), V(0, 3, 0), V(0, -2, 0), V(2, 0, 0), V(-1, 0, 0),
      V(3, 0, 4), V(3, 4, 0), V(-5, 12, 0), V(-9, 40, 0), V(3, 12, 4), V(0, 3, 4),
      V(0, -4, 3), V(21, 0, 220), V(21, 132, 176) }

\* The arguments of the direct calls of _trace_shadow_ray: rays along the z
\* axis, on which the surfaces of the scenes lie, and distances to the
\* sample point below, at and above the 0.001 of the loop test.
TraceCalls ==
    { V(0, 0, 5), <<R(0), R(0), Q(3, 2)>>, <<R(0), R(0), Q(-3, 2)>>,
      <<R(0), R(0), Q(1001, 1000)>> }
    \X { V(0, 0, 1), V(0, 0, -1) }
    \X { R(0), Q(1, 1000), Q(1, 2), R(5), R(10) }

\* compute_shadow_intensity up to line 156, called for a hit point and a
\* light: light_direction and the two in-plane axes.
AxesCall ==
    /\ pc = "idle"
    /\ pc' = "axes"
    /\ \E hit_point \in AxesHitPoints, to_light \in AxesToLight :
           shadow_axes' =
               [hit_point |-> hit_point,
                light_position |-> VAdd(hit_point, to_light),
                light_direction |->
                    ShadowLightDirection(VSub(VAdd(hit_point, to_light), hit_point)),
                right |-> ShadowAxes(engine, hit_point,
                                     Light(VAdd(hit_point, to_light), V(1, 1, 1),
                                           R(1), R(1), R(1)))[1],
                up |-> ShadowAxes(engine, hit_point,
                                  Light(VAdd(hit_point, to_light), V(1, 1, 1),
                                        R(1), R(1), R(1)))[2]]
    /\ UNCHANGED << engine, ray_origin, ray_direction, intersection_data,
                    recursion_depth, diffuse_specular_color, reflection_color,
                    background_color, light_k, shadow_i, shadow_j, hits,
                    intensities, calls, color, fn_ray, fn_ignore, nearest,
                    scene_file, shadow_trace >>
    /\ UNCHANGED prim

\* _trace_shadow_ray is called: lines 209-211.
TraceCall ==
    /\ pc = "idle"
    /\ pc' = "tracing"
    /\ \E call \in TraceCalls :
           shadow_trace' =
               [ray_origin |-> call[1], ray_direction |-> call[2],
                max_distance |-> call[3], accumulated_transparency |-> R(1),
                current_origin |-> call[1], remaining_distance |-> call[3],
                returned |-> FALSE, result |-> R(0)]
    /\ UNCHANGED << engine, ray_origin, ray_direction, intersection_data,
                    recursion_depth, diffuse_specular_color, reflection_color,
                    background_color, light_k, shadow_i, shadow_j, hits,
                    intensities, calls, color, fn_ray, fn_ignore, nearest,
                    scene_file, shadow_axes >>
    /\ UNCHANGED prim

\* The loop test of _trace_shadow_ray (line 214) and, when it holds, one
\* pass of the loop; when it fails, the return of line 238.
TraceIteration ==
    /\ pc = "tracing"
    /\ shadow_trace' =
           IF RGt(shadow_trace.remaining_distance, ShadowEps)
           THEN TracePass(engine, shadow_trace,
                          lighting_find_nearest_intersection(
                              shadow_trace.current_origin,
                              shadow_trace.ray_direction, engine.surfaces))
           ELSE [shadow_trace EXCEPT !.returned = TRUE,
                                     !.result = shadow_trace.accumulated_transparency]
    /\ pc' = IF shadow_trace'.returned THEN "traced" ELSE "tracing"
    /\ UNCHANGED << engine, ray_origin, ray_direction, intersection_data,
                    recursion_depth, diffuse_specular_color, reflection_color,
                    background_color, light_k, shadow_i, shadow_j, hits,
                    intensities, calls, color, fn_ray, fn_ignore, nearest,
                    scene_file, shadow_axes >>
    /\ UNCHANGED prim

\* The caller takes the axes or the value _trace_shadow_ray returned.
ShadowReturn ==
    /\ pc \in {"axes", "traced"}
    /\ Cleared
    /\ shadow_axes' = NoAxes
    /\ shadow_trace' = NoTrace
    /\ UNCHANGED << engine, scene_file >>
    /\ UNCHANGED prim

\* The scenes of the direct calls: the light is an argument of the call.
ShadowInit == Init /\ engine.lights = <<>>

ShadowNext ==
    \/ AxesCall
    \/ TraceCall
    \/ TraceIteration
    \/ ShadowReturn

ShadowSpec == ShadowInit /\ [][ShadowNext]_vars

\* Once called, _trace_shadow_ray runs on: whenever a pass of its loop can
\* be made, it is made.
ShadowFairSpec == ShadowSpec /\ WF_vars(TraceIteration)

(***************************************************************************)
(* The color of a traced ray, as a value                                   *)
(***************************************************************************)
RECURSIVE SumVectors(_)
SumVectors(seq) ==
    IF seq = <<>> THEN Zeros3
    ELSE VAdd(SumVectors(SubSeq(seq, 1, Len(seq) - 1)), seq[Len(seq)])

\* compute_shadow_intensity (lines 134-192) with every jitter value 1/2.
compute_shadow_intensity(self, hit_point, light) ==
    ShadowResult(self, light,
        SumVectors([n \in 1..(self.num_shadow_rays * self.num_shadow_rays) |->
            << ShadowSample(self, hit_point, light,
                            (n - 1) \div self.num_shadow_rays,
                            (n - 1) % self.num_shadow_rays, Q(1, 2), Q(1, 2)),
               R(0), R(0) >>])[1])

\* compute_color (lines 36-95) as a function of its arguments.
compute_color(self, origin, direction, intersection, depth) ==
    IF ~intersection.hit THEN NoIntersectionColor(self)
    ELSE LET mat == MaterialOf(self, intersection)
         IN  final_color(
                 IF TransparencyGuard(self, mat, depth)
                 THEN compute_transparency(self, intersection.hit_point, direction,
                                           mat, depth)
                 ELSE Zeros3,
                 SumVectors([k \in 1..Len(self.lights) |->
                     compute_light_contribution(
                         intersection.hit_point, intersection.normal, direction,
                         mat, self.lights[k],
                         compute_shadow_intensity(self, intersection.hit_point,
                                                  self.lights[k]))]),
                 IF ReflectionGuard(self, mat, depth)
                 THEN compute_reflection(self, intersection.hit_point, direction,
                                         intersection.normal, mat, depth)
                 ELSE Zeros3,
                 mat)

\* The color obtained by tracing a ray at a depth while ignoring a surface:
\* the nearest intersection of the ray, as find_nearest_intersection
\* documents it, shaded by compute_color (the pattern of main, lines 100-113).
TracedColor(self, origin, direction, depth, ignore_surface) ==
    compute_color(self, origin, direction,
                  FindNearestDocumented(Ray(origin, direction), self.surfaces,
                                        ignore_surface),
                  depth)

\* The surfaces, other than the ignored one, that report a hit for the ray
\* find_nearest_intersection was called with.
Hitting ==
    { k \in 1..Len(engine.surfaces) :
        k # fn_ignore /\ Intersect(engine.surfaces[k], fn_ray).hit }

\* find_nearest_intersection was called and has returned.
FindNearestReturned == fn_ray # NoRay

\* compute_color has returned the color of a hit.
ShadedHit == pc = "done" /\ intersection_data.hit

(***************************************************************************)
(* Properties                                                              *)
(***************************************************************************)
\* C1: when a surface other than the ignored one reports a hit,
\* find_nearest_intersection returns a hit whose distance is the smallest of
\* the distances reported, with the surface that produced it.
C1_NearestIsMinimal ==
    FindNearestReturned /\ Hitting # {} =>
        /\ nearest.hit
        /\ nearest.surface \in Hitting
        /\ nearest = [Intersect(engine.surfaces[nearest.surface], fn_ray)
                         EXCEPT !.surface = nearest.surface]
        /\ \A k \in Hitting :
               RLe(nearest.distance,
                   Intersect(engine.surfaces[k], fn_ray).distance)

\* C2: when no surface other than the ignored one reports a hit (an empty
\* surface list included), find_nearest_intersection returns none.
C2_NoneWhenNothingHits ==
    FindNearestReturned /\ Hitting = {} => nearest = None

\* find_nearest_intersection returned for a list of surfaces none of which,
\* the ignored one apart, is hit; one case has the ignored surface hit.
C2_Witness ==
    /\ pc = "found"
    /\ Hitting = {}
    /\ fn_ignore # 0
    /\ Intersect(engine.surfaces[fn_ignore], fn_ray).hit
    /\ nearest = None

\* C3: for a none intersection compute_color returns exactly the background
\* color, whatever the ray and the depth, and evaluates no light.
C3_NoneReturnsBackground ==
    pc = "done" /\ ~intersection_data.hit =>
        /\ color = engine.background_color
        /\ intensities = <<>>
        /\ light_k = 0

\* compute_color returned for a none intersection at a depth above 0, in a
\* scene with lights and a background color outside [0, 255].
C3_Witness ==
    /\ pc = "done"
    /\ ~intersection_data.hit
    /\ recursion_depth > 0
    /\ Len(engine.lights) > 0
    /\ RGt(color[1], R(255))

\* C4: at recursion depth equal to max_recursions the reflection term and
\* the transparency term contribute zero to the result.
C4_NoRecursiveTermsAtLimit ==
    ShadedHit /\ recursion_depth = engine.max_recursion =>
        /\ reflection_color = Zeros3
        /\ VScale(background_color, material.transparency) = Zeros3

\* C5: the color of a hit is, channel by channel,
\* clamp(backgroundTerm * t + directLighting * (1 - t) + reflectionTerm)
\* with t the transparency of the material, and lies in [0, 255].
C5_Composition ==
    ShadedHit =>
        \A i \in 1..3 :
            LET t == material.transparency
                sum == RAdd(RAdd(RMul(background_color[i], t),
                                 RMul(diffuse_specular_color[i], RSub(R(1), t))),
                            reflection_color[i])
            IN  /\ color[i] = (IF RLt(sum, R(0)) THEN R(0)
                               ELSE IF RGt(sum, R(255)) THEN R(255) ELSE sum)
                /\ RGe(color[i], R(0))
                /\ RLe(color[i], R(255))

\* A hit on a transparent material was shaded and a channel was clamped.
C5_Witness ==
    /\ ShadedHit
    /\ RGt(material.transparency, R(0))
    /\ background_color # Zeros3
    /\ diffuse_specular_color # Zeros3
    /\ \E i \in 1..3 :
           RLt(RAdd(RMul(background_color[i], material.transparency),
                    RMul(diffuse_specular_color[i],
                         RSub(R(1), material.transparency))), R(0))

\* C6: every channel of every color compute_color returns lies in [0, 255].
C6_ColorInRange ==
    pc = "done" => \A i \in 1..3 : RGe(color[i], R(0)) /\ RLe(color[i], R(255))

\* C7: for a hit on a material with transparency 0 and reflection color 0,
\* the result is the clamp of the sum of the contributions the lights make
\* at that hit; with the non-negative colors of lights and materials no
\* contribution is negative, so the clamped sum over the first n lights
\* never exceeds, in any channel, that over the first n + 1.
C7_OpaqueIsSumOfLights ==
    ShadedHit /\ material.transparency = R(0) /\ material.reflection_color = Zeros3 =>
        LET contribution ==
                [k \in 1..Len(engine.lights) |->
                    compute_light_contribution(
                        intersection_data.hit_point, intersection_data.normal,
                        ray_direction, material, engine.lights[k], intensities[k])]
            upto(n) == Clip(SumVectors(SubSeq(contribution, 1, n)), R(0), R(255))
        IN  /\ Len(intensities) = Len(engine.lights)
            /\ color = upto(Len(engine.lights))
            /\ \A k \in 1..Len(engine.lights), i \in 1..3 :
                   /\ RGe(contribution[k][i], R(0))
                   /\ RLe(upto(k - 1)[i], upto(k)[i])

\* An opaque, non-reflective hit was shaded under two lights or more, the
\* first of which lights it.
C7_Witness ==
    /\ ShadedHit
    /\ material.transparency = R(0)
    /\ material.reflection_color = Zeros3
    /\ Len(engine.lights) >= 2
    /\ color[1] = R(255)
    /\ RGt(color[2], R(0))

\* C8: for a hit on a reflective material below the recursion limit, the
\* reflection term is the reflection color of the material times, channel
\* by channel, the color traced along the mirror direction from the hit
\* point at depth + 1 with the surface just hit ignored.
C8_ReflectionIsTracedColor ==
    ShadedHit /\ ReflectionGuard(engine, material, recursion_depth) =>
        reflection_color =
            VMul(material.reflection_color,
                 TracedColor(engine, intersection_data.hit_point,
                             reflect(ray_direction, intersection_data.normal),
                             recursion_depth + 1, intersection_data.surface))

\* C9: for a hit on a material with transparency above 0, the background
\* term is the color traced on from the hit point in the direction of the
\* ray at depth + 1 with the surface just hit ignored: the color of what
\* lies behind, and the scene background only when nothing does.
C9_BackgroundIsTracedColor ==
    ShadedHit /\ RGt(material.transparency, R(0)) =>
        background_color =
            TracedColor(engine, intersection_data.hit_point, ray_direction,
                        recursion_depth + 1, intersection_data.surface)

\* compute_color, called at depth 0, has made no call at a depth above
\* max_recursions.
C10_DepthBounded ==
    calls # <<>> /\ calls[1] = 0 =>
        \A k \in 1..Len(calls) : calls[k] <= engine.max_recursion

\* C10: every compute_color call started at depth 0 returns, and no call it
\* makes has a recursion depth above max_recursions.
C10_Terminates ==
    /\ []C10_DepthBounded
    /\ (pc \in {"lights", "transparency", "combine"} /\ calls[1] = 0) ~> (pc = "done")

\* A call at depth 0 on a hit whose material is reflective and transparent,
\* in a scene whose recursion limit is above 0, has returned.
C10_Witness ==
    /\ ShadedHit
    /\ calls[1] = 0
    /\ engine.max_recursion > 0
    /\ ReflectionGuard(engine, material, recursion_depth)
    /\ TransparencyGuard(engine, material, recursion_depth)
    /\ Len(engine.lights) > 0

\* The shadow ray from a hit point to the center of a light: its origin is
\* moved 0.001 along its direction, as compute_shadow_intensity moves it.
CenterShadowRay(hit_point, light) ==
    LET direction == normalize(VSub(light.position, hit_point))
    IN  Ray(VAdd(hit_point, VScale(direction, ShadowEps)), direction)

\* The surfaces of the scene that lie between a hit point and the center of
\* a light: the shadow ray meets them before it reaches the light.
Between(self, hit_point, light) ==
    { k \in 1..Len(self.surfaces) :
        LET x == Intersect(self.surfaces[k], CenterShadowRay(hit_point, light))
        IN  x.hit /\ RLe(x.distance, Norm(VSub(light.position, hit_point))) }

\* x lies in [0, 1].
InUnit(x) == RGe(x, R(0)) /\ RLe(x, R(1))

\* C11: with root_number_shadow_rays = 1 and no surface between the hit
\* point and the light, compute_shadow_intensity returns exactly 1, whatever
\* the shadow_intensity of the light and the jitter of the sample.
C11_UnobstructedIsOne ==
    engine.num_shadow_rays = 1 =>
        \A k \in 1..Len(intensities) :
            Between(engine, intersection_data.hit_point, engine.lights[k]) = {}
                => intensities[k] = R(1)

\* With one shadow ray, compute_shadow_intensity returned for a light of
\* shadow_intensity below 1 that no surface of the scene hides.
C11_Witness ==
    /\ engine.num_shadow_rays = 1
    /\ Len(engine.surfaces) > 0
    /\ \E k \in 1..Len(intensities) :
           /\ Between(engine, intersection_data.hit_point, engine.lights[k]) = {}
           /\ RLt(engine.lights[k].shadow_intensity, R(1))
           /\ engine.lights[k].radius = R(0)
    /\ \E k \in 1..Len(intensities) :
           /\ Between(engine, intersection_data.hit_point, engine.lights[k]) = {}
           /\ RGt(engine.lights[k].radius, R(0))

\* C12: when an opaque surface of the scene lies between the hit point and
\* a light and hides every sample of it (the light has radius 0, so every
\* sample is its center), compute_shadow_intensity returns
\* 1 - shadow_intensity.
C12_OpaqueBlockerShadows ==
    \A k \in 1..Len(intensities) :
        /\ engine.lights[k].radius = R(0)
        /\ \E b \in Between(engine, intersection_data.hit_point, engine.lights[k]) :
               PyIndex(engine.materials,
                       engine.surfaces[b].material_index - 1).transparency = R(0)
        => intensities[k] = RSub(R(1), engine.lights[k].shadow_intensity)

\* Every value compute_shadow_intensity has returned lies in [0, 1].
C13_IntensitiesInUnit ==
    \A k \in 1..Len(intensities) : InUnit(intensities[k])

\* C13: compute_shadow_intensity returns a value in [0, 1], and so does
\* every call of _trace_shadow_ray (the amount one sample adds to hits).
C13_ShadowInUnit ==
    /\ []C13_IntensitiesInUnit
    /\ [][ShadowSampleControl => InUnit(RSub(hits', hits))]_vars

\* With a 2 x 2 grid, compute_shadow_intensity returned for a light of
\* shadow_intensity strictly inside (0, 1) in a scene with a transparent
\* surface between the hit point and the light.
C13_Witness ==
    /\ engine.num_shadow_rays = 2
    /\ \E k \in 1..Len(intensities) :
           /\ RGt(engine.lights[k].shadow_intensity, R(0))
           /\ RLt(engine.lights[k].shadow_intensity, R(1))
           /\ \E b \in Between(engine, intersection_data.hit_point, engine.lights[k]) :
                  RGt(PyIndex(engine.materials,
                              engine.surfaces[b].material_index - 1).transparency,
                      R(0))

\* A call of a sphere's, a plane's, a cube's intersect has returned.
SphereReturned == pc = "intersected" /\ prim_surface.kind = "sphere"

PlaneReturned == pc = "intersected" /\ prim_surface.kind = "plane"

CubeReturned == pc = "intersected" /\ prim_surface.kind = "cube"

\* The two roots of the quadratic of a sphere and a ray, <<near, far>>:
\* (-b -+ sqrt(disc)) / 2a with oc = O - C, a = D.D, b = 2 oc.D.
QuadraticRoots(self, ray) ==
    LET a == Dot(ray.direction, ray.direction)
        b == RMul(R(2), Dot(VSub(ray.origin, self.position), ray.direction))
        root == RSqrt(Discriminant(self, ray))
    IN  << RDiv(RSub(RNeg(b), root), RMul(R(2), a)),
           RDiv(RAdd(RNeg(b), root), RMul(R(2), a)) >>

\* C14: Sphere.intersect returns no hit when the discriminant is negative;
\* otherwise the hit at the smallest root that is > 0.0001 (the far root
\* only when the near one is not), and no hit when neither root is.
C14_SphereRootChoice ==
    SphereReturned =>
        IF RLt(Discriminant(prim_surface, prim_ray), R(0)) THEN ~prim_result.hit
        ELSE LET roots == QuadraticRoots(prim_surface, prim_ray)
                 good == { k \in 1..2 : RGt(roots[k], SelfEps) }
             IN  IF good = {} THEN ~prim_result.hit
                 ELSE /\ prim_result.hit
                      /\ \E k \in good :
                             /\ prim_result.distance = roots[k]
                             /\ \A n \in good : RLe(roots[k], roots[n])

\* Sphere.intersect returned the far root because the near one is not
\* > 0.0001: the ray starts inside the sphere or on it.
C14_Witness ==
    /\ SphereReturned
    /\ prim_result.hit
    /\ ~RGt(QuadraticRoots(prim_surface, prim_ray)[1], SelfEps)
    /\ prim_result.distance = QuadraticRoots(prim_surface, prim_ray)[2]
    /\ QuadraticRoots(prim_surface, prim_ray)[1] # QuadraticRoots(prim_surface, prim_ray)[2]

\* C15: a hit of Sphere.intersect for a ray of unit direction has its hit
\* point ray(t) on the sphere, t > 0.0001 and normal (ray(t) - center) / radius;
\* the ray from (0,0,5) along (0,0,-1) hits the unit sphere at the origin at
\* (0,0,1) with normal (0,0,1) and distance 4.
C15_SphereHitOnSphere ==
    SphereReturned =>
        /\ prim_result.hit /\ Dot(prim_ray.direction, prim_ray.direction) = R(1) =>
               LET t == prim_result.distance
                   p == point_at(prim_ray, t)
                   d == VSub(p, prim_surface.position)
               IN  /\ RGt(t, SelfEps)
                   /\ prim_result.hit_point = p
                   /\ Dot(d, d) = RMul(prim_surface.radius, prim_surface.radius)
                   /\ prim_result.normal = VDivS(d, prim_surface.radius)
        /\ ( /\ prim_surface = Sphere(V(0, 0, 0), R(1), 1)
             /\ prim_ray = Ray(V(0, 0, 5), V(0, 0, -1)) ) =>
               prim_result = Intersection(V(0, 0, 1), V(0, 0, 1), R(4))

\* Sphere.intersect returned a hit on a sphere whose radius is not 1, for a
\* ray that does not pass through the center.
C15_Witness ==
    /\ SphereReturned
    /\ prim_result.hit
    /\ prim_surface.radius # R(1)
    /\ prim_result.normal # prim_ray.direction
    /\ prim_result.normal # VNeg(prim_ray.direction)

\* C16: InfinitePlane.intersect returns no hit when |D.N| < 1e-6 and when
\* t = (offset - O.N) / (D.N) < 0.0001; otherwise the hit at distance t
\* whose hit point O + tD is on the plane.  From (0,5,0) along (0,-1,0) the
\* plane of normal (0,1,0) and offset 0 is hit at (0,0,0), distance 5; along
\* (1,0,0) it is not hit.
C16_PlaneHit ==
    PlaneReturned =>
        LET N == normalize(prim_surface.normal)
            denom == Dot(prim_ray.direction, N)
            t == RDiv(RSub(prim_surface.offset, Dot(prim_ray.origin, N)), denom)
        IN  /\ IF RLt(RAbs(denom), ParallelEps) \/ RLt(t, SelfEps)
               THEN ~prim_result.hit
               ELSE /\ prim_result.hit
                    /\ prim_result.distance = t
                    /\ prim_result.hit_point = point_at(prim_ray, t)
                    /\ Dot(prim_result.hit_point, N) = prim_surface.offset
            /\ prim_surface = InfinitePlane(V(0, 1, 0), R(0), 1) =>
                   /\ prim_ray = Ray(V(0, 5, 0), V(0, -1, 0)) =>
                          /\ prim_result.hit
                          /\ prim_result.hit_point = V(0, 0, 0)
                          /\ prim_result.distance = R(5)
                   /\ prim_ray = Ray(V(0, 5, 0), V(1, 0, 0)) => ~prim_result.hit

\* InfinitePlane.intersect returned a hit for a ray that meets the plane at
\* an angle, on a plane whose stored normal is not of unit length.
C16_Witness ==
    /\ PlaneReturned
    /\ prim_result.hit
    /\ prim_surface.normal # normalize(prim_surface.normal)
    /\ prim_result.normal # VNeg(prim_ray.direction)
    /\ prim_result.normal # prim_ray.direction

\* The bounds of a cube on axis i: center -+ edge / 2.
CubeMin(self, i) == RSub(self.position[i], RDiv(self.scale, R(2)))

CubeMax(self, i) == RAdd(self.position[i], RDiv(self.scale, R(2)))

\* The axes a ray is not parallel to, and the parameters at which the ray
\* enters and leaves the slab of such an axis.
CrossedAxes(ray) == { i \in 1..3 : ~RLt(RAbs(ray.direction[i]), ParallelEps) }

SlabEntry(self, ray, i) ==
    RMin(RDiv(RSub(CubeMin(self, i), ray.origin[i]), ray.direction[i]),
         RDiv(RSub(CubeMax(self, i), ray.origin[i]), ray.direction[i]))

SlabExit(self, ray, i) ==
    RMax(RDiv(RSub(CubeMin(self, i), ray.origin[i]), ray.direction[i]),
         RDiv(RSub(CubeMax(self, i), ray.origin[i]), ray.direction[i]))

\* The ray starts outside the cube and hits it: it stays inside the slabs
\* it is parallel to, and the largest slab entry, which lies ahead of the
\* origin, is not beyond the smallest slab exit.
StartsOutsideAndHits(self, ray) ==
    /\ \E i \in 1..3 :
           RLt(ray.origin[i], CubeMin(self, i)) \/ RGt(ray.origin[i], CubeMax(self, i))
    /\ \A i \in (1..3) \ CrossedAxes(ray) :
           RGe(ray.origin[i], CubeMin(self, i)) /\ RLe(ray.origin[i], CubeMax(self, i))
    /\ \E e \in CrossedAxes(ray) :
           /\ RGt(SlabEntry(self, ray, e), R(0))
           /\ \A i \in CrossedAxes(ray) :
                  /\ RLe(SlabEntry(self, ray, i), SlabEntry(self, ray, e))
                  /\ RLe(SlabEntry(self, ray, e), SlabExit(self, ray, i))

\* Cube.intersect returned the entry of the ray: the distance is the largest
\* slab entry, the hit point is the point of the ray there, and the normal is
\* the unit vector of an axis that gives that entry, its sign opposite to the
\* sign of the ray direction on the axis.
ReturnsEntry(self, ray, result) ==
    /\ result.hit
    /\ result.hit_point = point_at(ray, result.distance)
    /\ \E e \in CrossedAxes(ray) :
           /\ result.distance = SlabEntry(self, ray, e)
           /\ \A i \in CrossedAxes(ray) :
                  RLe(SlabEntry(self, ray, i), SlabEntry(self, ray, e))
           /\ result.normal =
                  AxisVector(e, IF RGt(ray.direction[e], R(0)) THEN -1 ELSE 1)

\* C17 as stated: for every ray that starts outside a cube and hits it,
\* Cube.intersect returns the entry distance and the normal of the entry face.
C17_OutsideRayReturnsEntry ==
    CubeReturned /\ StartsOutsideAndHits(prim_surface, prim_ray) =>
        ReturnsEntry(prim_surface, prim_ray, prim_result)

\* C17: for a ray that starts outside a cube and enters it at a distance of
\* at least 0.0001, Cube.intersect returns the entry distance and the normal
\* of the entry face; from (0,0,5) along (0,0,-1) the cube of edge 2 at the
\* origin is hit at (0,0,1) with normal (0,0,1) and distance 4.
C17_EntryBeyondGuard ==
    CubeReturned =>
        /\ StartsOutsideAndHits(prim_surface, prim_ray) =>
               \/ \A i \in CrossedAxes(prim_ray) :
                      RLt(SlabEntry(prim_surface, prim_ray, i), SelfEps)
               \/ ReturnsEntry(prim_surface, prim_ray, prim_result)
        /\ ( /\ prim_surface = Cube(V(0, 0, 0), R(2), 1)
             /\ prim_ray = Ray(V(0, 0, 5), V(0, 0, -1)) ) =>
               prim_result = Intersection(V(0, 0, 1), V(0, 0, 1), R(4))

\* Cube.intersect returned the entry of a ray that starts outside the cube,
\* crosses two of its slabs and enters through a face of the x axis.
C17_Witness ==
    /\ CubeReturned
    /\ StartsOutsideAndHits(prim_surface, prim_ray)
    /\ Cardinality(CrossedAxes(prim_ray)) = 2
    /\ prim_result.hit
    /\ prim_result.normal = V(-1, 0, 0)

\* C18: every Intersection a primitive returns has a normal of unit length
\* that faces the incoming ray (normal . direction <= 0), wherever the ray
\* starts, behind a plane or inside a sphere or a cube included.
C18_NormalFacesRay ==
    pc = "intersected" /\ prim_result.hit =>
        /\ Dot(prim_result.normal, prim_result.normal) = R(1)
        /\ RLe(Dot(prim_result.normal, prim_ray.direction), R(0))

\* C19: every Intersection a primitive returns has a distance strictly
\* greater than 0.0001.
C19_DistanceBeyondGuard ==
    pc = "intersected" /\ prim_result.hit => RGt(prim_result.distance, SelfEps)

\* The degenerate inputs: a zero direction, a ray parallel to the plane, a
\* ray parallel to all three slabs of the cube, a plane normal of length 0.
Degenerate(surface, ray) ==
    \/ ray.direction = Zeros3
    \/ /\ surface.kind = "plane"
       /\ ( \/ surface.normal = Zeros3
            \/ RLt(RAbs(Dot(ray.direction, normalize(surface.normal))), ParallelEps) )
    \/ /\ surface.kind = "cube"
       /\ CrossedAxes(ray) = {}

\* C20: on a degenerate input every solver returns no hit, and no solver
\* returns an Intersection with a distance that is not finite or with a zero
\* normal.
C20_DegenerateIsNoHit ==
    pc = "intersected" =>
        /\ Degenerate(prim_surface, prim_ray) => ~prim_result.hit
        /\ prim_result.hit =>
               /\ IsFinite(prim_result.distance)
               /\ prim_result.normal # Zeros3

\* C21 as stated: every Ray has a direction of length 1, whatever direction
\* vector was passed to Ray(origin, direction), also after intersect used it.
C21_EveryRayIsUnit ==
    pc = "intersected" => Dot(prim_ray.direction, prim_ray.direction) = R(1)

\* C21: a Ray built from a direction vector other than the zero vector has a
\* direction of length 1, and still has it after intersect used the ray; a
\* zero direction vector is stored as it is.
C21_NonZeroRayIsUnit ==
    pc = "intersected" =>
        /\ \/ prim_ray.direction = Zeros3
           \/ Dot(prim_ray.direction, prim_ray.direction) = R(1)
        /\ \A o \in PrimOrigins, d \in PrimDirections :
               prim_ray = Ray(o, d) => (d = Zeros3 <=> prim_ray.direction = Zeros3)

\* intersect was called with a ray built from the direction (3, 0, -4), of
\* length 5.
C21_Witness ==
    /\ pc = "intersected"
    /\ prim_ray = Ray(V(0, 0, 5), V(3, 0, -4))
    /\ prim_ray.direction = <<Q(3, 5), R(0), Q(-4, 5)>>

\* The scene file has a line with an unknown tag, or a surface line whose
\* material index is not one of 1 .. the number of "mtl" lines.
InvalidScene(lines) ==
    \E k \in 1..Len(lines) :
        \/ lines[k].obj_type \notin {"mtl", "sph", "pln", "box", "lgt"}
        \/ /\ lines[k].obj_type \in {"sph", "pln", "box"}
           /\ lines[k].index \notin
                  1..Cardinality({ m \in 1..Len(lines) : lines[m].obj_type = "mtl" })

\* C22: a scene file with an unknown tag or with a surface whose material
\* index is out of range fails at load time, before a ray is traced; and a
\* surface that is shaded has a material index within 1 .. len(materials).
C22_InvalidSceneFailsAtLoad ==
    /\ InvalidScene(scene_file) => pc \in {"start", "load_failed"}
    /\ pc = "done" /\ intersection_data.hit =>
           engine.surfaces[intersection_data.surface].material_index
               \in 1..Len(engine.materials)

\* C23: no step of find_nearest_intersection, compute_color and
\* compute_shadow_intensity changes the scene: the surfaces with their
\* geometry and material_index, the materials, the lights and the settings
\* the engine holds are after the step what they were before it.
C23_SceneUnchanged == [][engine' = engine]_vars

\* compute_color returned after it added the contribution of a light, in a
\* scene with two surfaces.
C23_Witness ==
    /\ pc = "done"
    /\ Len(intensities) > 0
    /\ Len(engine.surfaces) = 2
    /\ diffuse_specular_color # Zeros3

\* C24: the color compute_color returns is a function of the scene and of
\* its arguments alone: whatever values the shadow sampler drew, it is the
\* color obtained with every draw equal to 1/2, so that two renders of a
\* scene give every pixel the same color.
C24_ColorIsFunctionOfScene ==
    pc = "done" =>
        color = compute_color(engine, ray_origin, ray_direction, intersection_data,
                              recursion_depth)

\* A hit was shaded under a light of positive radius with a 2 x 2 grid of
\* shadow rays, each aimed with its own two random draws, and the light
\* reaches the hit.
C24_Witness ==
    /\ ShadedHit
    /\ engine.num_shadow_rays = 2
    /\ \E k \in 1..Len(intensities) :
           /\ RGt(engine.lights[k].radius, R(0))
           /\ RGt(intensities[k], R(0))
    /\ \E i \in 1..3 : RGt(color[i], R(0)) /\ RLt(color[i], R(255))

\* C25: when an ignore surface is given, find_nearest_intersection returns
\* no intersection whose surface is that object, also when it is the nearest
\* one along the ray, and it still considers the other surfaces, those with
\* the same geometry included: it returns a hit when one of them is hit.
C25_IgnoredNeverReturned ==
    pc = "found" /\ fn_ignore # 0 =>
        /\ nearest.hit => nearest.surface # fn_ignore
        /\ ( \E k \in Hitting : engine.surfaces[k] = engine.surfaces[fn_ignore] )
               => nearest.hit

\* The surfaces of the scene the shadow ray of a _trace_shadow_ray call
\* meets at a distance not beyond max_distance.
Blockers(self, st) ==
    { k \in 1..Len(self.surfaces) :
        LET x == Intersect(self.surfaces[k], Ray(st.ray_origin, st.ray_direction))
        IN  x.hit /\ RLe(x.distance, st.max_distance) }

\* The transparency of the material of the k-th surface of the scene.
TransparencyOf(self, k) ==
    PyIndex(self.materials, self.surfaces[k].material_index - 1).transparency

\* C26: for one shadow sample, _trace_shadow_ray returns the product of the
\* transparencies of the surfaces the ray meets within the distance to the
\* sample point: 1 when it meets none, 0 when it meets an opaque one, the
\* transparency of the plane when a plane is all it meets.
C26_TraceReturnsProduct ==
    pc = "traced" /\ RGt(shadow_trace.max_distance, ShadowEps) =>
        /\ Blockers(engine, shadow_trace) = {} => shadow_trace.result = R(1)
        /\ ( \E k \in Blockers(engine, shadow_trace) :
                 TransparencyOf(engine, k) = R(0) ) => shadow_trace.result = R(0)
        /\ \A k \in Blockers(engine, shadow_trace) :
               /\ Blockers(engine, shadow_trace) = {k}
               /\ engine.surfaces[k].kind = "plane"
               => shadow_trace.result = TransparencyOf(engine, k)

\* C27: for a hit point other than the light position, the two in-plane
\* axes compute_shadow_intensity builds have length 1, are perpendicular to
\* each other and to the light direction: neither cross product is zero.
C27_AxesOrthonormal ==
    pc = "axes" /\ shadow_axes.hit_point # shadow_axes.light_position =>
        /\ Dot(shadow_axes.right, shadow_axes.right) = R(1)
        /\ Dot(shadow_axes.up, shadow_axes.up) = R(1)
        /\ Dot(shadow_axes.right, shadow_axes.up) = R(0)
        /\ Dot(shadow_axes.right, shadow_axes.light_direction) = R(0)
        /\ Dot(shadow_axes.up, shadow_axes.light_direction) = R(0)
        /\ Cross(shadow_axes.light_direction,
                 IF RGt(RAbs(shadow_axes.light_direction[1]), Q(1, 10))
                 THEN V(0, 1, 0) ELSE V(1, 0, 0)) # Zeros3

\* The axes were built for a light straight above the hit point, where the
\* light direction is world-up itself.
C27_Witness ==
    /\ pc = "axes"
    /\ shadow_axes.light_direction = V(0, 1, 0)
    /\ shadow_axes.right # Zeros3

\* Whatever a surface of the scene answers to the shadow ray, a pass of the
\* loop on it returns or takes at least 0.001 off remaining_distance.
PassReturnsOrDecreases ==
    pc = "tracing" =>
        \A x \in {None} \cup HitsOf(engine, Ray(shadow_trace.current_origin,
                                                 shadow_trace.ray_direction)) :
            \/ TracePass(engine, shadow_trace, x).returned
            \/ RLe(TracePass(engine, shadow_trace, x).remaining_distance,
                   RSub(shadow_trace.remaining_distance, ShadowEps))

\* C29: the loop of _trace_shadow_ray terminates for every max_distance and
\* every scene: each pass returns or takes at least 0.001 off
\* remaining_distance, so every call returns.
C29_TraceTerminates ==
    /\ (pc = "tracing") ~> (pc = "traced")
    /\ []PassReturnsOrDecreases
    /\ [][pc = "tracing" =>
              \/ pc' = "traced"
              \/ RLe(shadow_trace'.remaining_distance,
                     RSub(shadow_trace.remaining_distance, ShadowEps))]_vars

\* _trace_shadow_ray returned from a pass of its loop, in a scene with a
\* transparent surface on the ray.
C29_Witness ==
    /\ pc = "traced"
    /\ RGt(shadow_trace.max_distance, ShadowEps)
    /\ \E k \in Blockers(engine, shadow_trace) : RGt(TransparencyOf(engine, k), R(0))

\* The point lies on the boundary of the cube: inside every slab, and on a
\* bound of one of them.
OnBoundary(self, point) ==
    /\ \A i \in 1..3 :
           RGe(point[i], CubeMin(self, i)) /\ RLe(point[i], CubeMax(self, i))
    /\ \E i \in 1..3 : point[i] = CubeMin(self, i) \/ point[i] = CubeMax(self, i)

\* The ray meets the cube at some t >= 0.0001: it lies inside the slabs it
\* is parallel to, enters no slab after it has left another, and leaves
\* none before 0.0001.
MeetsBox(self, ray) ==
    /\ \A i \in (1..3) \ CrossedAxes(ray) :
           RGe(ray.origin[i], CubeMin(self, i)) /\ RLe(ray.origin[i], CubeMax(self, i))
    /\ \A i \in CrossedAxes(ray), j \in CrossedAxes(ray) :
           RLe(SlabEntry(self, ray, i), SlabExit(self, ray, j))
    /\ \A j \in CrossedAxes(ray) : RGe(SlabExit(self, ray, j), SelfEps)

\* C28: for a ray whose entry distance is below 0.0001 (its origin is
\* inside the cube), Cube.intersect returns the exit distance, the smallest
\* slab exit, unless that is below 0.0001 too; the hit point of every hit it
\* returns lies on the boundary of the cube; and it returns a hit exactly
\* when the ray meets the cube at some t >= 0.0001.
C28_InsideRayReturnsExit ==
    CubeReturned =>
        /\ prim_result.hit <=> MeetsBox(prim_surface, prim_ray)
        /\ prim_result.hit => OnBoundary(prim_surface, prim_result.hit_point)
        /\ ( /\ prim_result.hit
             /\ \A i \in CrossedAxes(prim_ray) :
                    RLt(SlabEntry(prim_surface, prim_ray, i), SelfEps) )
           => /\ \A j \in CrossedAxes(prim_ray) :
                     RLe(prim_result.distance, SlabExit(prim_surface, prim_ray, j))
              /\ \E j \in CrossedAxes(prim_ray) :
                     prim_result.distance = SlabExit(prim_surface, prim_ray, j)

====
